---- MODULE Spec2Model ----
(***************************************************************************)
(* Peer discovery engine of distributedlock (distributed/disco.py).        *)
(*                                                                         *)
(* Every node runs three threads: the protocol task (Disco.__enter__ ->    *)
(* discovery -> poll), the receive worker (Disco._recv) and the send       *)
(* worker (Disco._send).  They share the two bounded queues and the        *)
(* threading.Event.  The bus is one kafka topic (READ_TOPIC = WRITE_TOPIC) *)
(* and is modelled, per running node, as the ordered stream of messages    *)
(* written to the topic that the node has not read yet.                    *)
(***************************************************************************)
EXTENDS Naturals, Sequences, FiniteSets

\* ------------------------------------------------------------ constants

\* disco.py:47  MIN_PEERS = 2
MIN_PEERS == 2

\* disco.py:171-172  queue.Queue(maxsize=15)
QueueMax == 15

\* Messages that clients outside the cluster write to the topic.
MaxInject == 2

\* Free slots of the outbound queue at the start of the backlog
\* specification.
MaxFree == 2

\* add_peer/remove_peer calls an owner makes on a PeerList.
MaxCalls == 3

\* Callbacks registered on a PeerList at one time.
MaxCallbacks == 2

\* Identities (Id.getmyip() of each node).
Nodes == {"A", "B", "C"}

\* ------------------------------------------------------------ wire format

\* Action strings, as sequences of characters ("X" in s is a substring test).
DISCO == <<"D", "I", "S", "C", "O">>
REPLY == <<"R", "E", "P", "L", "Y">>
END == <<"E", "N", "D">>
\* An action that is none of the three and contains none of them.
PING == <<"P", "I", "N", "G">>
\* An action that is none of the three but contains "END".
SEND == <<"S", "E", "N", "D">>

\* Python's  needle in hay  on strings.
IsSubstrIdx(needle, hay, i) ==
    /\ i + Len(needle) - 1 <= Len(hay)
    /\ SubSeq(hay, i, i + Len(needle) - 1) = needle

IsSubstr(needle, hay) ==
    \E i \in 1..(Len(hay) + 1) : IsSubstrIdx(needle, hay, i)

\* The order in which the code's dict literals list their keys.
KeyOrder == <<"action", "reply", "source">>

\* json.dumps(dict): the text, as the ordered list of (key, value) members.
Dumps(d) ==
    LET keys == SelectSeq(KeyOrder, LAMBDA k : k \in DOMAIN d)
    IN  [i \in 1..Len(keys) |-> <<keys[i], d[keys[i]]>>]

\* json.loads(text): the dict of the members (the last of equal keys wins).
Loads(t) ==
    [k \in {t[i][1] : i \in DOMAIN t} |->
        t[CHOOSE i \in DOMAIN t :
              /\ t[i][1] = k
              /\ \A j \in DOMAIN t : t[j][1] = k => j <= i][2]]

\* disco.py:249
DiscoMsg(n) == [action |-> DISCO, source |-> n]
\* reply() that leaves the reply field without the identity.
ReplyMsgUnset(n) == [action |-> REPLY, reply |-> "none", source |-> n]

\* disco.py:284-288
ReplyMsg(n) == [action |-> REPLY, reply |-> n, source |-> n]
\* disco.py:293
EndMsg(n) == [action |-> END, source |-> n]

NoText == <<>>
NoDict == [action |-> <<>>, source |-> "none"]

\* ------------------------------------------------------------ state

VARIABLES
    cluster,    \* the nodes that run an engine on the topic
    same_topic, \* whether the engines write to the topic they read
    peerlist,   \* PeerList._state of each node's Disco._peerlist
    plen,       \* PeerList._length
    in_disco,   \* Disco._in_disco
    endit,      \* Disco._endit
    event,      \* Disco._event (threading.Event)
    in_queue,   \* Disco._in_queue
    out_queue,  \* Disco._out_queue
    pc,         \* where the protocol task (main thread) stands
    pmsg,       \* the argument of the produce() call in progress
    pret,       \* where the produce() call in progress returns to
    msg,        \* poll()'s local msg: the message last taken from consume()
    rpc,        \* where the receive worker stands
    spc,        \* where the send worker stands
    stream,     \* per node: messages on the topic it has not read yet
    injected,   \* number of messages written by peers outside the cluster
    produced,   \* per node: the texts it has put on its outbound queue
    callbacks,  \* PeerList._callbacks
    notified,   \* per PeerList: the calls its subscribers received, in order
    calls,      \* number of add_peer/remove_peer calls made by an owner
    watchdog,   \* the threading.Timer of the __main__ block
    plog,       \* per node: the texts put by produce(), in call order
    written,    \* per node: the texts its send worker wrote to the bus
    rlog,       \* per node: the texts its receive worker read from the bus
    clog        \* per node: the texts its protocol task took from consume()

vars == <<cluster, same_topic, peerlist, plen, in_disco, endit, event,
          in_queue, out_queue, pc, pmsg, pret, msg, rpc, spc, stream,
          injected, produced, callbacks, notified, calls, watchdog, plog,
          written, rlog, clog>>

\* Disco.__init__ and the part of __enter__ before its while loop: both
\* workers are submitted, nothing is queued, the PeerList is empty.
InitNodes(c, same) ==
    /\ cluster = c
    /\ same_topic = same
    /\ peerlist = [n \in Nodes |-> {}]
    /\ plen = [n \in Nodes |-> 0]
    /\ in_disco = [n \in Nodes |-> FALSE]
    /\ endit = [n \in Nodes |-> FALSE]
    /\ event = [n \in Nodes |-> FALSE]
    /\ in_queue = [n \in Nodes |-> <<>>]
    /\ out_queue = [n \in Nodes |-> <<>>]
    /\ pc = [n \in Nodes |-> "enter"]
    /\ pmsg = [n \in Nodes |-> NoText]
    /\ pret = [n \in Nodes |-> "enter"]
    /\ msg = [n \in Nodes |-> NoDict]
    /\ rpc = [n \in Nodes |-> "loop"]
    /\ spc = [n \in Nodes |-> "loop"]
    /\ stream = [n \in Nodes |-> <<>>]
    /\ injected = 0
    /\ produced = [n \in Nodes |-> {}]
    /\ callbacks = [n \in Nodes |-> <<>>]
    /\ notified = [n \in Nodes |-> <<>>]
    /\ calls = 0
    /\ watchdog = [n \in Nodes |-> "started"]
    /\ plog = [n \in Nodes |-> <<>>]
    /\ written = [n \in Nodes |-> <<>>]
    /\ rlog = [n \in Nodes |-> <<>>]
    /\ clog = [n \in Nodes |-> <<>>]

\* One engine, node A, reading and writing the one topic (READ_TOPIC and
\* WRITE_TOPIC are the same); every other participant is the environment.
Init == InitNodes({"A"}, TRUE)

\* ------------------------------------------------------------ PeerList

\* A set object handed to a subscriber is either the PeerList's own _state
\* set (obj = "state": reading it gives what _state holds at the time of
\* the reading) or a set object of its own (obj = "copy") holding val.
StateObject == [obj |-> "state", val |-> {}]

\* copy.deepcopy(self._state): a new set object with the present members.
DeepCopy(n) == [obj |-> "copy", val |-> peerlist[n]]

\* PeerList.get_state: return self._state, the set object itself.
GetState(n) == StateObject

\* What a holder of the set object r of n's PeerList reads in it, now and
\* after the step.
Deref(n, r) == IF r.obj = "state" THEN peerlist[n] ELSE r.val

DerefNext(n, r) == IF r.obj = "state" THEN peerlist'[n] ELSE r.val

\* PeerList._notify: every registered callback, in the order of
\* _callbacks, is called with (old_state, new_state).
Notify(n, old_state, new_state) ==
    notified' = [notified EXCEPT ![n] =
                    @ \o [i \in 1..Len(callbacks[n]) |->
                            [callback |-> callbacks[n][i],
                             old |-> old_state,
                             new |-> new_state]]]

\* add_peer on a list instead of a set: every call counts.
AddPeerList(n, peer) ==
    /\ peerlist' = [peerlist EXCEPT ![n] = @ \cup {peer}]
    /\ plen' = [plen EXCEPT ![n] = @ + 1]
    /\ Notify(n, DeepCopy(n), GetState(n))

\* PeerList.add_peer: old_state = deepcopy(_state); _state.add(peer);
\* _length = len(_state); _notify(old_state, get_state()).
AddPeer(n, peer) ==
    /\ peerlist' = [peerlist EXCEPT ![n] = @ \cup {peer}]
    /\ plen' = [plen EXCEPT ![n] = Cardinality(peerlist[n] \cup {peer})]
    /\ Notify(n, DeepCopy(n), GetState(n))

\* remove_peer that counts the length down at every call.
RemovePeerCount(n, peer) ==
    /\ peerlist' = [peerlist EXCEPT ![n] = @ \ {peer}]
    /\ plen' = [plen EXCEPT ![n] = IF @ > 0 THEN @ - 1 ELSE 0]
    /\ Notify(n, DeepCopy(n), GetState(n))

\* PeerList.remove_peer: old_state = deepcopy(_state);
\* _state.discard(peer); _length = len(_state);
\* _notify(old_state, get_state()).
RemovePeer(n, peer) ==
    /\ peerlist' = [peerlist EXCEPT ![n] = @ \ {peer}]
    /\ plen' = [plen EXCEPT ![n] = Cardinality(peerlist[n] \ {peer})]
    /\ Notify(n, DeepCopy(n), GetState(n))

\* The functions an owner of a PeerList registers.
Callbacks == {"f", "g"}

\* The owner of a PeerList calls add_peer(peer).
AddPeerCall(n, peer) ==
    /\ calls < MaxCalls
    /\ calls' = calls + 1
    /\ AddPeer(n, peer)
    /\ UNCHANGED <<cluster, same_topic, in_disco, endit, event, in_queue,
                   out_queue, pc, pmsg, pret, msg, rpc, spc, stream,
                   injected, produced, callbacks, watchdog, plog, written,
                   rlog, clog>>

\* The owner of a PeerList calls remove_peer(peer).
RemovePeerCall(n, peer) ==
    /\ calls < MaxCalls
    /\ calls' = calls + 1
    /\ RemovePeer(n, peer)
    /\ UNCHANGED <<cluster, same_topic, in_disco, endit, event, in_queue,
                   out_queue, pc, pmsg, pret, msg, rpc, spc, stream,
                   injected, produced, callbacks, watchdog, plog, written,
                   rlog, clog>>

\* PeerList.register_callback: _callbacks.append(callback)
RegisterCallback(n, callback) ==
    /\ Len(callbacks[n]) < MaxCallbacks
    /\ callbacks' = [callbacks EXCEPT ![n] = Append(@, callback)]
    /\ UNCHANGED <<cluster, same_topic, peerlist, plen, in_disco, endit,
                   event, in_queue, out_queue, pc, pmsg, pret, msg, rpc, spc,
                   stream, injected, produced, notified, calls, watchdog,
                   plog, written, rlog, clog>>

\* list.remove(x): the list without the first item equal to x.
ListRemove(l, x) ==
    LET i == CHOOSE j \in DOMAIN l :
                 l[j] = x /\ \A k \in 1..(j - 1) : l[k] # x
    IN  SubSeq(l, 1, i - 1) \o SubSeq(l, i + 1, Len(l))

\* PeerList.deregister_callback: _callbacks.remove(callback); the call
\* raises ValueError, and changes nothing, when callback is not registered.
DeregisterCallback(n, callback) ==
    /\ callbacks' = [callbacks EXCEPT ![n] =
                        IF \E j \in DOMAIN @ : @[j] = callback
                          THEN ListRemove(@, callback)
                          ELSE @]
    /\ callbacks'[n] # callbacks[n]
    /\ UNCHANGED <<cluster, same_topic, peerlist, plen, in_disco, endit,
                   event, in_queue, out_queue, pc, pmsg, pret, msg, rpc, spc,
                   stream, injected, produced, notified, calls, watchdog,
                   plog, written, rlog, clog>>

\* ------------------------------------------------------------ protocol task

\* shutdown() that flips the flags instead of setting them.
ShutdownToggle(n) ==
    /\ endit' = [endit EXCEPT ![n] = ~@]
    /\ event' = [event EXCEPT ![n] = ~@]

\* Disco.shutdown
Shutdown(n) ==
    /\ endit' = [endit EXCEPT ![n] = TRUE]
    /\ event' = [event EXCEPT ![n] = TRUE]

\* A call of produce(text) that returns to ret: control moves to produce's
\* test.
CallProduce(n, text, ret) ==
    /\ pmsg' = [pmsg EXCEPT ![n] = text]
    /\ pret' = [pret EXCEPT ![n] = ret]
    /\ pc' = [pc EXCEPT ![n] = "produce"]

\* produce() that tests the event only.
ProduceAdmitsAnyLength(n) == ~event[n]

\* produce(): the test  not event.is_set() and not out_queue.full()
ProduceAdmits(n) ==
    /\ ~event[n]
    /\ Len(out_queue[n]) < QueueMax

\* produce(), its test; a refused message is dropped and produce returns.
ProduceTest(n) ==
    /\ pc[n] = "produce"
    /\ IF ProduceAdmits(n)
         THEN /\ pc' = [pc EXCEPT ![n] = "put"]
              /\ pmsg' = pmsg
         ELSE /\ pc' = [pc EXCEPT ![n] = pret[n]]
              /\ pmsg' = [pmsg EXCEPT ![n] = NoText]
    /\ UNCHANGED <<cluster, same_topic, peerlist, plen, in_disco, endit,
                   event, in_queue, out_queue, pret, msg, rpc, spc, stream,
                   injected, produced>>
    /\ UNCHANGED <<callbacks, notified, calls, watchdog, plog, written, rlog,
                   clog>>

\* produce(), out_queue.put(str(msg)): a blocking put.
ProducePut(n) ==
    /\ pc[n] = "put"
    /\ Len(out_queue[n]) < QueueMax
    /\ out_queue' = [out_queue EXCEPT ![n] = Append(@, pmsg[n])]
    /\ produced' = [produced EXCEPT ![n] = @ \cup {pmsg[n]}]
    /\ plog' = [plog EXCEPT ![n] = Append(@, pmsg[n])]
    /\ pc' = [pc EXCEPT ![n] = pret[n]]
    /\ pmsg' = [pmsg EXCEPT ![n] = NoText]
    /\ UNCHANGED <<cluster, same_topic, peerlist, plen, in_disco, endit,
                   event, in_queue, pret, msg, rpc, spc, stream, injected>>
    /\ UNCHANGED <<callbacks, notified, calls, watchdog, written, rlog, clog>>

\* discovery() up to its call of poll().
Discovery(n) ==
    IF ~in_disco[n]
      THEN /\ in_disco' = [in_disco EXCEPT ![n] = TRUE]
           /\ CallProduce(n, Dumps(DiscoMsg(n)), "poll")
      ELSE /\ pc' = [pc EXCEPT ![n] = "poll"]
           /\ UNCHANGED <<in_disco, pmsg, pret>>

\* __enter__'s  while not self._event.is_set(): self.discovery()
Enter(n) ==
    /\ pc[n] = "enter"
    /\ IF event[n]
         THEN /\ pc' = [pc EXCEPT ![n] = "returned"]
              /\ UNCHANGED <<in_disco, pmsg, pret>>
         ELSE Discovery(n)
    /\ UNCHANGED <<cluster, same_topic, peerlist, plen, endit, event,
                   in_queue, out_queue, msg, rpc, spc, stream, injected,
                   produced>>
    /\ UNCHANGED <<callbacks, notified, calls, watchdog, plog, written, rlog,
                   clog>>

\* poll()'s  while not self._endit  and the sleep after it.
Poll(n) ==
    /\ pc[n] = "poll"
    /\ pc' = [pc EXCEPT ![n] = IF endit[n] THEN "enter" ELSE "consume"]
    /\ UNCHANGED <<cluster, same_topic, peerlist, plen, in_disco, endit,
                   event, in_queue, out_queue, pmsg, pret, msg, rpc, spc,
                   stream, injected, produced>>
    /\ UNCHANGED <<callbacks, notified, calls, watchdog, plog, written, rlog,
                   clog>>

\* consume() without its emptiness test: it goes straight to the get.
ConsumeNoTest(n) ==
    /\ pc[n] = "consume"
    /\ pc' = [pc EXCEPT ![n] = "get"]
    /\ UNCHANGED <<cluster, same_topic, peerlist, plen, in_disco, endit,
                   event, in_queue, out_queue, pmsg, pret, msg, rpc, spc,
                   stream, injected, produced>>
    /\ UNCHANGED <<callbacks, notified, calls, watchdog, plog, written, rlog,
                   clog>>

\* consume()'s  while not self._in_queue.empty(); an empty queue ends the
\* for loop of poll().
Consume(n) ==
    /\ pc[n] = "consume"
    /\ pc' = [pc EXCEPT ![n] = IF in_queue[n] = <<>> THEN "poll" ELSE "get"]
    /\ UNCHANGED <<cluster, same_topic, peerlist, plen, in_disco, endit,
                   event, in_queue, out_queue, pmsg, pret, msg, rpc, spc,
                   stream, injected, produced>>
    /\ UNCHANGED <<callbacks, notified, calls, watchdog, plog, written, rlog,
                   clog>>

\* "END" in msg["action"]
IsEnd(m) == IsSubstr(END, m.action)

\* The loop-back test left out.
IsSelfNever(n, m) == FALSE

\* self._id.getmyip() == msg["source"]
IsSelf(n, m) == m.source = n

\* The quorum test with > for >=.
QuorumExceeded(n) == plen'[n] > MIN_PEERS

\* len(self._peerlist) >= MIN_PEERS, after add_peer
QuorumReached(n) == plen'[n] >= MIN_PEERS

\* end(): produce the END message.
EndCall(n) == CallProduce(n, Dumps(EndMsg(n)), "consume")

\* reply() that announces again instead of replying.
ReplyAnnounces(n) == CallProduce(n, Dumps(DiscoMsg(n)), "consume")

\* reply(): produce the REPLY message.
ReplyCall(n) == CallProduce(n, Dumps(ReplyMsg(n)), "consume")

\* The body of the for loop with the loop-back test ahead of the END test.
HandleSelfFirst(n, m) ==
    IF IsSelf(n, m)
      THEN /\ pc' = [pc EXCEPT ![n] = "consume"]
           /\ UNCHANGED <<peerlist, plen, notified, in_disco, endit, event,
                          pmsg, pret>>
    ELSE IF IsEnd(m)
      THEN /\ Shutdown(n)
           /\ pc' = [pc EXCEPT ![n] = "poll"]
           /\ UNCHANGED <<peerlist, plen, notified, in_disco, pmsg, pret>>
    ELSE IF IsSubstr(DISCO, m.action)
      THEN /\ in_disco' = [in_disco EXCEPT ![n] = TRUE]
           /\ ReplyCall(n)
           /\ UNCHANGED <<peerlist, plen, notified, endit, event>>
    ELSE IF IsSubstr(REPLY, m.action)
      THEN /\ AddPeer(n, m.reply)
           /\ IF QuorumReached(n)
                THEN EndCall(n)
                ELSE /\ pc' = [pc EXCEPT ![n] = "consume"]
                     /\ UNCHANGED <<pmsg, pret>>
           /\ UNCHANGED <<in_disco, endit, event>>
    ELSE /\ pc' = [pc EXCEPT ![n] = "raised"]
         /\ UNCHANGED <<peerlist, plen, notified, in_disco, endit, event,
                        pmsg, pret>>

\* The body of the for loop with END honoured only by a node that has
\* reached the quorum itself.
HandleEndAtQuorum(n, m) ==
    IF IsEnd(m) /\ plen[n] >= MIN_PEERS
      THEN /\ Shutdown(n)
           /\ pc' = [pc EXCEPT ![n] = "poll"]
           /\ UNCHANGED <<peerlist, plen, notified, in_disco, pmsg, pret>>
    ELSE IF IsEnd(m) \/ IsSelf(n, m)
      THEN /\ pc' = [pc EXCEPT ![n] = "consume"]
           /\ UNCHANGED <<peerlist, plen, notified, in_disco, endit, event,
                          pmsg, pret>>
    ELSE IF IsSubstr(DISCO, m.action)
      THEN /\ in_disco' = [in_disco EXCEPT ![n] = TRUE]
           /\ ReplyCall(n)
           /\ UNCHANGED <<peerlist, plen, notified, endit, event>>
    ELSE IF IsSubstr(REPLY, m.action)
      THEN /\ AddPeer(n, m.reply)
           /\ IF QuorumReached(n)
                THEN EndCall(n)
                ELSE /\ pc' = [pc EXCEPT ![n] = "consume"]
                     /\ UNCHANGED <<pmsg, pret>>
           /\ UNCHANGED <<in_disco, endit, event>>
    ELSE /\ pc' = [pc EXCEPT ![n] = "raised"]
         /\ UNCHANGED <<peerlist, plen, notified, in_disco, endit, event,
                        pmsg, pret>>

\* The body of poll()'s for loop for the message m.
Handle(n, m) ==
    IF IsEnd(m)
      THEN /\ Shutdown(n)
           /\ pc' = [pc EXCEPT ![n] = "poll"]
           /\ UNCHANGED <<peerlist, plen, notified, in_disco, pmsg, pret>>
    ELSE IF IsSelf(n, m)
      THEN /\ pc' = [pc EXCEPT ![n] = "consume"]
           /\ UNCHANGED <<peerlist, plen, notified, in_disco, endit, event,
                          pmsg, pret>>
    ELSE IF IsSubstr(DISCO, m.action)
      THEN /\ in_disco' = [in_disco EXCEPT ![n] = TRUE]
           /\ ReplyCall(n)
           /\ UNCHANGED <<peerlist, plen, notified, endit, event>>
    ELSE IF IsSubstr(REPLY, m.action)
      THEN /\ AddPeer(n, m.reply)
           /\ IF QuorumReached(n)
                THEN EndCall(n)
                ELSE /\ pc' = [pc EXCEPT ![n] = "consume"]
                     /\ UNCHANGED <<pmsg, pret>>
           /\ UNCHANGED <<in_disco, endit, event>>
    ELSE \* raise UnknownActionError: out of poll, discovery and __enter__
         /\ pc' = [pc EXCEPT ![n] = "raised"]
         /\ UNCHANGED <<peerlist, plen, notified, in_disco, endit, event,
                        pmsg, pret>>

\* consume()'s  self._in_queue.get()  (a blocking get), json.loads, and the
\* body of the for loop.
Get(n) ==
    /\ pc[n] = "get"
    /\ in_queue[n] # <<>>
    /\ in_queue' = [in_queue EXCEPT ![n] = Tail(@)]
    /\ msg' = [msg EXCEPT ![n] = Loads(Head(in_queue[n]))]
    /\ clog' = [clog EXCEPT ![n] = Append(@, Head(in_queue[n]))]
    /\ Handle(n, Loads(Head(in_queue[n])))
    /\ UNCHANGED <<cluster, same_topic, out_queue, rpc, spc, stream,
                   injected, produced>>
    /\ UNCHANGED <<callbacks, calls, watchdog, plog, written, rlog>>

\* The messages a node's own code builds.
OwnMsgs(n) == {DiscoMsg(n), ReplyMsg(n), EndMsg(n)}

\* The body of the with statement calls the public produce(json.dumps(d)).
ProduceCall(n, d) ==
    /\ pc[n] = "returned"
    /\ CallProduce(n, Dumps(d), "returned")
    /\ UNCHANGED <<cluster, same_topic, peerlist, plen, in_disco, endit,
                   event, in_queue, out_queue, msg, rpc, spc, stream,
                   injected, produced>>
    /\ UNCHANGED <<callbacks, notified, calls, watchdog, plog, written, rlog,
                   clog>>

\* The body of the with statement calls the public discovery() again; its
\* poll() returns to the caller the way it returns to __enter__'s loop.
DiscoveryCall(n) ==
    /\ pc[n] = "returned"
    /\ Discovery(n)
    /\ UNCHANGED <<cluster, same_topic, peerlist, plen, endit, event,
                   in_queue, out_queue, msg, rpc, spc, stream, injected,
                   produced>>
    /\ UNCHANGED <<callbacks, notified, calls, watchdog, plog, written, rlog,
                   clog>>

\* The body of the with statement calls the public shutdown().
ShutdownCall(n) ==
    /\ pc[n] = "returned"
    /\ Shutdown(n)
    /\ UNCHANGED <<cluster, same_topic, peerlist, plen, in_disco, in_queue,
                   out_queue, pc, pmsg, pret, msg, rpc, spc, stream,
                   injected, produced>>
    /\ UNCHANGED <<callbacks, notified, calls, watchdog, plog, written, rlog,
                   clog>>

\* __exit__: executor.shutdown(wait=True) joins both workers, the streams
\* are closed, the event is set.
Exit(n) ==
    /\ pc[n] = "returned"
    /\ rpc[n] = "stopped"
    /\ spc[n] = "stopped"
    /\ pc' = [pc EXCEPT ![n] = "exited"]
    /\ event' = [event EXCEPT ![n] = TRUE]
    /\ UNCHANGED <<cluster, same_topic, peerlist, plen, in_disco, endit,
                   in_queue, out_queue, pmsg, pret, msg, rpc, spc, stream,
                   injected, produced>>
    /\ UNCHANGED <<callbacks, notified, calls, watchdog, plog, written, rlog,
                   clog>>

\* ------------------------------------------------------------ __main__

\* The watchdog timer (started before the engine is constructed) reaches
\* its interval without having been cancelled and runs watchdog_timeout:
\* the function logs and raises DiscoTimeoutError in the timer's thread,
\* which ends that thread and touches nothing of the engine.
WatchdogFire(n) ==
    /\ watchdog[n] = "started"
    /\ watchdog' = [watchdog EXCEPT ![n] = "fired"]
    /\ UNCHANGED <<cluster, same_topic, peerlist, plen, in_disco, endit,
                   event, in_queue, out_queue, pc, pmsg, pret, msg, rpc, spc,
                   stream, injected, produced>>
    /\ UNCHANGED <<callbacks, notified, calls, plog, written, rlog, clog>>

\* watchdog.cancel(), the statement after the with statement: it is
\* reached when __exit__ has returned, and stops a timer that has not
\* fired.
WatchdogCancel(n) ==
    /\ pc[n] = "exited"
    /\ pc' = [pc EXCEPT ![n] = "done"]
    /\ watchdog' = [watchdog EXCEPT ![n] =
                       IF @ = "started" THEN "cancelled" ELSE @]
    /\ UNCHANGED <<cluster, same_topic, peerlist, plen, in_disco, endit,
                   event, in_queue, out_queue, pmsg, pret, msg, rpc, spc,
                   stream, injected, produced>>
    /\ UNCHANGED <<callbacks, notified, calls, plog, written, rlog, clog>>

\* ------------------------------------------------------------ the bus

\* A write to the topic the engines read: every running engine will read
\* it, in order.
TopicWrite(text) ==
    stream' = [m \in Nodes |->
                  IF m \in cluster THEN Append(stream[m], text) ELSE stream[m]]

\* self._stream_w.write(msg): to the topic the engines read when
\* write_topic is read_topic, else to a topic none of them reads.
BusWrite(text) ==
    IF same_topic THEN TopicWrite(text) ELSE stream' = stream

\* ------------------------------------------------------------ workers

\* _send's  while not self._event.is_set()
SendLoop(n) ==
    /\ spc[n] = "loop"
    /\ spc' = [spc EXCEPT ![n] = IF event[n] THEN "stopped" ELSE "get"]
    /\ UNCHANGED <<cluster, same_topic, peerlist, plen, in_disco, endit,
                   event, in_queue, out_queue, pc, pmsg, pret, msg, rpc,
                   stream, injected, produced>>
    /\ UNCHANGED <<callbacks, notified, calls, watchdog, plog, written, rlog,
                   clog>>

\* A send worker that takes the newest message of the outbound queue.
SendWriteNewest(n) ==
    /\ spc[n] = "get"
    /\ out_queue[n] # <<>>
    /\ out_queue' = [out_queue EXCEPT ![n] = SubSeq(@, 1, Len(@) - 1)]
    /\ BusWrite(out_queue[n][Len(out_queue[n])])
    /\ written' = [written EXCEPT ![n] =
                      Append(@, out_queue[n][Len(out_queue[n])])]
    /\ spc' = [spc EXCEPT ![n] = "loop"]
    /\ UNCHANGED <<cluster, same_topic, peerlist, plen, in_disco, endit,
                   event, in_queue, pc, pmsg, pret, msg, rpc, injected,
                   produced>>
    /\ UNCHANGED <<callbacks, notified, calls, watchdog, plog, rlog, clog>>

\* _send's  self._out_queue.get()  (blocks while the queue is empty) and
\* self._stream_w.write(msg)
SendWrite(n) ==
    /\ spc[n] = "get"
    /\ out_queue[n] # <<>>
    /\ out_queue' = [out_queue EXCEPT ![n] = Tail(@)]
    /\ BusWrite(Head(out_queue[n]))
    /\ written' = [written EXCEPT ![n] = Append(@, Head(out_queue[n]))]
    /\ spc' = [spc EXCEPT ![n] = "loop"]
    /\ UNCHANGED <<cluster, same_topic, peerlist, plen, in_disco, endit,
                   event, in_queue, pc, pmsg, pret, msg, rpc, injected,
                   produced>>
    /\ UNCHANGED <<callbacks, notified, calls, watchdog, plog, rlog, clog>>

\* _recv's  while not self._event.is_set()
RecvLoop(n) ==
    /\ rpc[n] = "loop"
    /\ rpc' = [rpc EXCEPT ![n] = IF event[n] THEN "stopped" ELSE "iter"]
    /\ UNCHANGED <<cluster, same_topic, peerlist, plen, in_disco, endit,
                   event, in_queue, out_queue, pc, pmsg, pret, msg, spc,
                   stream, injected, produced>>
    /\ UNCHANGED <<callbacks, notified, calls, watchdog, plog, written, rlog,
                   clog>>

\* _recv's  for message in self._stream_r: self._in_queue.put(message)
\* one message: the read blocks until the topic has one, the put blocks
\* while the inbound queue is full.
RecvPut(n) ==
    /\ rpc[n] = "iter"
    /\ stream[n] # <<>>
    /\ Len(in_queue[n]) < QueueMax
    /\ in_queue' = [in_queue EXCEPT ![n] = Append(@, Head(stream[n]))]
    /\ stream' = [stream EXCEPT ![n] = Tail(@)]
    /\ rlog' = [rlog EXCEPT ![n] = Append(@, Head(stream[n]))]
    /\ UNCHANGED <<cluster, same_topic, peerlist, plen, in_disco, endit,
                   event, out_queue, pc, pmsg, pret, msg, rpc, spc, injected,
                   produced>>
    /\ UNCHANGED <<callbacks, notified, calls, watchdog, plog, written, clog>>

\* _recv: the stream (until_eos=True) ends its iteration at the end of the
\* topic, and the worker is back at its while test.
RecvEos(n) ==
    /\ rpc[n] = "iter"
    /\ stream[n] = <<>>
    /\ rpc' = [rpc EXCEPT ![n] = "loop"]
    /\ UNCHANGED <<cluster, same_topic, peerlist, plen, in_disco, endit,
                   event, in_queue, out_queue, pc, pmsg, pret, msg, spc,
                   stream, injected, produced>>
    /\ UNCHANGED <<callbacks, notified, calls, watchdog, plog, written, rlog,
                   clog>>

\* ------------------------------------------------------------ environment

\* The nodes that are not the engine of the one-engine specifications.
Others == {"B", "C"}

\* What well-behaved peers write: the messages the engine code builds.
PeerMsgs == UNION {OwnMsgs(p) : p \in Others}

\* What any client of the topic may write.
InjectMsgs ==
    {DiscoMsg("B"), ReplyMsg("B"), ReplyMsg("C"), EndMsg("B"),
     \* the node's own messages
     DiscoMsg("A"), ReplyMsg("A"), EndMsg("A"),
     \* a REPLY that names the reader
     [action |-> REPLY, reply |-> "A", source |-> "B"],
     \* actions outside the protocol
     [action |-> PING, source |-> "B"], [action |-> PING, source |-> "A"],
     [action |-> SEND, source |-> "B"]}

\* A client outside the cluster writes json.dumps(d) to the topic.
Inject(d) ==
    /\ injected < MaxInject
    /\ injected' = injected + 1
    /\ TopicWrite(Dumps(d))
    /\ UNCHANGED <<cluster, same_topic, peerlist, plen, in_disco, endit,
                   event, in_queue, out_queue, pc, pmsg, pret, msg, rpc, spc,
                   produced>>
    /\ UNCHANGED <<callbacks, notified, calls, watchdog, plog, written, rlog,
                   clog>>

\* ------------------------------------------------------------ specifications

\* The steps of the three threads of every running engine.
Threads ==
    \/ \E n \in cluster : Enter(n)
    \/ \E n \in cluster : Poll(n)
    \/ \E n \in cluster : Consume(n)
    \/ \E n \in cluster : Get(n)
    \/ \E n \in cluster : ProduceTest(n)
    \/ \E n \in cluster : ProducePut(n)
    \/ \E n \in cluster : Exit(n)
    \/ \E n \in cluster : SendLoop(n)
    \/ \E n \in cluster : SendWrite(n)
    \/ \E n \in cluster : RecvLoop(n)
    \/ \E n \in cluster : RecvPut(n)
    \/ \E n \in cluster : RecvEos(n)

\* The calls the owner of an engine may make in the body of its with
\* statement.
Owner ==
    \/ \E n \in cluster : \E d \in OwnMsgs(n) : ProduceCall(n, d)
    \/ \E n \in cluster : DiscoveryCall(n)
    \/ \E n \in cluster : ShutdownCall(n)

\* One engine, used as a library, on a topic any client may write to.
Next ==
    \/ Threads
    \/ Owner
    \/ \E d \in InjectMsgs : Inject(d)

Spec == Init /\ [][Next]_vars

\* The three threads of a node, for the fairness of their scheduling.
ProtocolTask(n) ==
    \/ Enter(n)
    \/ Poll(n)
    \/ Consume(n)
    \/ Get(n)
    \/ ProduceTest(n)
    \/ ProducePut(n)
    \/ Exit(n)

SendWorker(n) == SendLoop(n) \/ SendWrite(n)

RecvWorker(n) == RecvLoop(n) \/ RecvPut(n) \/ RecvEos(n)

\* Every thread of a running engine that can run is eventually scheduled;
\* the clients outside the cluster owe nothing.
Fairness ==
    \A n \in Nodes :
        /\ WF_vars(n \in cluster /\ ProtocolTask(n))
        /\ WF_vars(n \in cluster /\ SendWorker(n))
        /\ WF_vars(n \in cluster /\ RecvWorker(n))

\* One engine as __main__ runs it (the body of the with statement calls
\* nothing) on a topic any client may write to, its threads scheduled
\* fairly.
NextMain ==
    \/ Threads
    \/ \E d \in InjectMsgs : Inject(d)

FairSpec == Init /\ [][NextMain]_vars /\ Fairness

\* One engine as __main__ runs it on a topic that only well-behaved peers
\* write to, its threads scheduled fairly.
NextPeers ==
    \/ Threads
    \/ \E d \in PeerMsgs : Inject(d)

PeerFairSpec == Init /\ [][NextPeers]_vars /\ Fairness

\* The steps of the __main__ block around the engine: its timer thread and
\* the statement that follows the with statement.
Main ==
    \/ \E n \in cluster : WatchdogFire(n)
    \/ \E n \in cluster : WatchdogCancel(n)

\* The timer thread runs when its interval has passed, and the main thread
\* goes on after the with statement.
MainFairness ==
    \A n \in Nodes :
        /\ WF_vars(n \in cluster /\ WatchdogFire(n))
        /\ WF_vars(n \in cluster /\ WatchdogCancel(n))

\* The whole __main__ block: the watchdog, one engine and the cancel, on a
\* topic that only well-behaved peers write to, every thread scheduled
\* fairly.
NextWatchdog ==
    \/ Threads
    \/ Main
    \/ \E d \in PeerMsgs : Inject(d)

WatchdogSpec ==
    Init /\ [][NextWatchdog]_vars /\ Fairness /\ MainFairness

\* The outbound queue of A after the DISCO and k - 1 REPLYs were queued.
Backlog(k) ==
    [i \in 1..k |->
        IF i = 1 THEN Dumps(DiscoMsg("A")) ELSE Dumps(ReplyMsg("A"))]

\* The DISCOs of B that A has read and answered with the k - 1 REPLYs.
Answered(k) == [i \in 1..(k - 1) |-> Dumps(DiscoMsg("B"))]

\* What the peer of the backlog specification writes.
BacklogMsgs == {DiscoMsg("B"), EndMsg("B")}

\* Engine A, constructed with a write topic other than its read topic, with
\* a backlog: it has announced and has answered the DISCOs of its peer while
\* its send worker has not been scheduled yet, which leaves at most MaxFree
\* free slots in the outbound queue.  injected counts the messages written
\* from here on.
BacklogInit ==
    \E free \in 0..MaxFree :
        /\ cluster = {"A"}
        /\ same_topic = FALSE
        /\ peerlist = [n \in Nodes |-> {}]
        /\ plen = [n \in Nodes |-> 0]
        /\ in_disco = [n \in Nodes |-> n = "A"]
        /\ endit = [n \in Nodes |-> FALSE]
        /\ event = [n \in Nodes |-> FALSE]
        /\ in_queue = [n \in Nodes |-> <<>>]
        /\ out_queue = [n \in Nodes |->
                           IF n = "A" THEN Backlog(QueueMax - free) ELSE <<>>]
        /\ pc = [n \in Nodes |-> IF n = "A" THEN "consume" ELSE "enter"]
        /\ pmsg = [n \in Nodes |-> NoText]
        /\ pret = [n \in Nodes |-> IF n = "A" THEN "consume" ELSE "enter"]
        /\ msg = [n \in Nodes |-> IF n = "A" THEN DiscoMsg("B") ELSE NoDict]
        /\ rpc = [n \in Nodes |-> IF n = "A" THEN "iter" ELSE "loop"]
        /\ spc = [n \in Nodes |-> "loop"]
        /\ stream = [n \in Nodes |-> <<>>]
        /\ injected = 0
        /\ produced = [n \in Nodes |->
                          IF n = "A"
                            THEN {Dumps(DiscoMsg("A")), Dumps(ReplyMsg("A"))}
                            ELSE {}]
        /\ callbacks = [n \in Nodes |-> <<>>]
        /\ notified = [n \in Nodes |-> <<>>]
        /\ calls = 0
        /\ watchdog = [n \in Nodes |-> "started"]
        /\ plog = [n \in Nodes |->
                      IF n = "A" THEN Backlog(QueueMax - free) ELSE <<>>]
        /\ written = [n \in Nodes |-> <<>>]
        /\ rlog = [n \in Nodes |->
                      IF n = "A" THEN Answered(QueueMax - free) ELSE <<>>]
        /\ clog = [n \in Nodes |->
                      IF n = "A" THEN Answered(QueueMax - free) ELSE <<>>]

NextBacklog ==
    \/ Threads
    \/ Owner
    \/ \E d \in BacklogMsgs : Inject(d)

BacklogSpec == BacklogInit /\ [][NextBacklog]_vars

\* The texts of the topic before node B opened its read stream: A and C
\* announced, C answered A and A answered C.
BusBefore ==
    <<Dumps(DiscoMsg("A")), Dumps(DiscoMsg("C")), Dumps(ReplyMsg("C")),
      Dumps(ReplyMsg("A"))>>

\* The texts written after that: B announced, A and C answered.
BusAfter ==
    <<Dumps(DiscoMsg("B")), Dumps(ReplyMsg("A")), Dumps(ReplyMsg("C"))>>

\* How many texts of BusAfter each node has taken from consume().
Consumed == [A |-> 1, B |-> 1, C |-> 3]

\* A closed cluster of three engines on the one topic, B started last (a
\* read stream delivers what is written after it was opened, so that B has
\* not read BusBefore).  A and C hold each other as their single peer, B
\* has announced and holds no peer; every text produced so far has been
\* written, and what a node has not taken yet is on its read stream.
ClusterInit ==
    /\ cluster = Nodes
    /\ same_topic = TRUE
    /\ peerlist = [n \in Nodes |->
                     IF n = "A" THEN {"C"} ELSE IF n = "C" THEN {"A"} ELSE {}]
    /\ plen = [n \in Nodes |-> IF n = "B" THEN 0 ELSE 1]
    /\ in_disco = [n \in Nodes |-> TRUE]
    /\ endit = [n \in Nodes |-> FALSE]
    /\ event = [n \in Nodes |-> FALSE]
    /\ in_queue = [n \in Nodes |-> <<>>]
    /\ out_queue = [n \in Nodes |-> <<>>]
    /\ pc = [n \in Nodes |-> "consume"]
    /\ pmsg = [n \in Nodes |-> NoText]
    /\ pret = [n \in Nodes |-> IF n = "B" THEN "poll" ELSE "consume"]
    /\ msg = [n \in Nodes |-> Loads(BusAfter[Consumed[n]])]
    /\ rpc = [n \in Nodes |-> "iter"]
    /\ spc = [n \in Nodes |-> "loop"]
    /\ stream = [n \in Nodes |->
                   SubSeq(BusAfter, Consumed[n] + 1, Len(BusAfter))]
    /\ injected = 0
    /\ produced = [n \in Nodes |->
                     IF n = "B"
                       THEN {Dumps(DiscoMsg(n))}
                       ELSE {Dumps(DiscoMsg(n)), Dumps(ReplyMsg(n))}]
    /\ callbacks = [n \in Nodes |-> <<>>]
    /\ notified = [n \in Nodes |-> <<>>]
    /\ calls = 0
    /\ watchdog = [n \in Nodes |-> "started"]
    /\ plog = [n \in Nodes |->
                 IF n = "B"
                   THEN <<Dumps(DiscoMsg(n))>>
                   ELSE <<Dumps(DiscoMsg(n)), Dumps(ReplyMsg(n)),
                          Dumps(ReplyMsg(n))>>]
    /\ written = plog
    /\ rlog = [n \in Nodes |->
                 (IF n = "B" THEN <<>> ELSE BusBefore)
                     \o SubSeq(BusAfter, 1, Consumed[n])]
    /\ clog = rlog

\* The three engines run; nobody else writes to the topic.
ClusterSpec == ClusterInit /\ [][Threads]_vars

\* A PeerList used on its own (the class is exported): no engine runs, the
\* owner of the PeerList in slot A registers and deregisters callbacks and
\* adds and removes identities.
PeerListInit == InitNodes({}, TRUE)

NextPeerList ==
    \/ \E peer \in Nodes : AddPeerCall("A", peer)
    \/ \E peer \in Nodes : RemovePeerCall("A", peer)
    \/ \E callback \in Callbacks : RegisterCallback("A", callback)
    \/ \E callback \in Callbacks : DeregisterCallback("A", callback)

PeerListSpec == PeerListInit /\ [][NextPeerList]_vars

\* ------------------------------------------------------------ claims

\* The protocol task of n takes a message from consume() in this step.
GetStep(n) == pc[n] = "get" /\ pc'[n] # "get"

\* The message that step takes.
Taken(n) == Loads(Head(in_queue[n]))

\* Some text on n's outbound queue is an END message.
EndQueued(n) ==
    \E i \in DOMAIN out_queue[n] : Loads(out_queue[n][i]).action = END

\* n's protocol task has left __enter__.
Returned(n) == pc[n] \in {"returned", "exited"}

\* C1 (as claimed): once the REPLY that completes the quorum has been
\* processed and the end() it calls has returned, the node's end flag is
\* set, so that polling halts without an END from the topic.
C1_QuorumSetsEndFlag ==
    \A n \in Nodes :
        (plen[n] >= MIN_PEERS /\ pc[n] \notin {"produce", "put"}) => endit[n]

\* C2: an END message is put on, or sits on, a node's outbound queue only
\* when the node's PeerList holds at least MIN_PEERS distinct identities.
C2_NoEndBelowQuorum ==
    \A n \in Nodes :
        ((pc[n] = "put" /\ Loads(pmsg[n]).action = END) \/ EndQueued(n))
            => Cardinality(peerlist[n]) >= MIN_PEERS

\* C2 witness: A has processed a REPLY of B, holds the single peer B, is
\* back in its for loop and has produced no END.
C2_Witness ==
    /\ msg["A"] = ReplyMsg("B")
    /\ peerlist["A"] = {"B"}
    /\ pc["A"] = "consume"
    /\ injected = MaxInject
    /\ stream["A"] = <<>>
    /\ Dumps(EndMsg("A")) \notin produced["A"]

\* C3 (as claimed): no node's PeerList contains the node's own identity.
C3_NeverOwnIdentity ==
    \A n \in Nodes : n \notin peerlist[n]

\* C4: the step that takes a DISCO or REPLY whose source is the node itself
\* changes neither the PeerList, nor the outbound queue, nor the flags, and
\* calls no produce(): control is back in the for loop.
C4_SelfMessageSkipped ==
    [][\A n \in Nodes :
          (/\ GetStep(n)
           /\ Taken(n).source = n
           /\ Taken(n).action \in {DISCO, REPLY})
              => /\ peerlist'[n] = peerlist[n]
                 /\ plen'[n] = plen[n]
                 /\ out_queue'[n] = out_queue[n]
                 /\ produced'[n] = produced[n]
                 /\ pmsg'[n] = pmsg[n]
                 /\ pc'[n] = "consume"
                 /\ endit'[n] = endit[n]
                 /\ event'[n] = event[n]]_vars

\* C4 witness: A has taken its own DISCO, is back in the for loop and has
\* produced no REPLY.
C4_Witness ==
    /\ msg["A"] = DiscoMsg("A")
    /\ pc["A"] = "consume"
    /\ Dumps(ReplyMsg("A")) \notin produced["A"]
    /\ peerlist["A"] = {}

\* C5: the step that takes an END message, whatever its source and the size
\* of the PeerList, sets the end flag and the event and leaves the for loop;
\* once the end flag is set no message is taken from the inbound queue, and
\* the next step of poll()'s while test leaves poll().
C5_EndStopsPolling ==
    [][\A n \in Nodes :
          /\ (GetStep(n) /\ Taken(n).action = END)
                => (endit'[n] /\ event'[n] /\ pc'[n] = "poll")
          /\ endit[n] => (pc'[n] \notin {"consume", "get"}
                          /\ Len(in_queue'[n]) >= Len(in_queue[n]))
          /\ (endit[n] /\ pc[n] = "poll" /\ pc'[n] # "poll")
                => pc'[n] = "enter"]_vars

\* C5 witness: A, with an empty PeerList, has taken an END whose source is A
\* itself and has left __enter__ with a later message still on the inbound
\* queue.
C5_Witness ==
    /\ msg["A"] = EndMsg("A")
    /\ peerlist["A"] = {}
    /\ endit["A"] /\ event["A"]
    /\ pc["A"] = "returned"
    /\ in_queue["A"] # <<>>

\* C6: once shutdown has been triggered the end flag and the event stay
\* set, the in-discovery flag stays set, nothing is put on the outbound
\* queue (no DISCO is announced again) and no error is raised.
C6_ShutdownIdempotent ==
    [][\A n \in Nodes :
          (endit[n] /\ event[n])
              => /\ endit'[n] /\ event'[n]
                 /\ in_disco'[n]
                 /\ pc'[n] # "raised"
                 /\ produced'[n] = produced[n]
                 /\ \/ out_queue'[n] = out_queue[n]
                    \/ /\ out_queue[n] # <<>>
                       /\ out_queue'[n] = Tail(out_queue[n])]_vars

\* C6 witness: A has shut down and left __enter__ while a second END
\* message is the next one on its inbound queue.
C6_Witness ==
    /\ endit["A"] /\ event["A"]
    /\ pc["A"] = "returned"
    /\ in_queue["A"] # <<>>
    /\ Loads(Head(in_queue["A"])).action = END

\* C7 (as claimed): the step that takes a message whose action is none of
\* DISCO, REPLY, END raises UnknownActionError, whatever its source.
C7_UnknownActionRaises ==
    [][\A n \in Nodes :
          (GetStep(n) /\ Taken(n).action \notin {DISCO, REPLY, END})
              => pc'[n] = "raised"]_vars

\* C8: produce() reaches its put only with the event clear and a free slot,
\* which is still free when the put runs (it never blocks), whatever the
\* send worker did in between; a produce() refused by its test returns with
\* the outbound queue unchanged; the queue never exceeds its capacity.
C8_ProduceDropsWhenFull ==
    /\ [](\A n \in Nodes :
            /\ Len(out_queue[n]) <= QueueMax
            /\ pc[n] = "put" => (~event[n] /\ Len(out_queue[n]) < QueueMax))
    /\ [][\A n \in Nodes :
            (pc[n] = "produce" /\ pc'[n] # "produce"
               /\ (event[n] \/ Len(out_queue[n]) >= QueueMax))
                => /\ out_queue'[n] = out_queue[n]
                   /\ produced'[n] = produced[n]
                   /\ pc'[n] = pret[n]]_vars

\* C8 witness: A is in produce() for a REPLY, the event clear, with QueueMax
\* messages on its outbound queue.
C8_Witness ==
    /\ pc["A"] = "produce"
    /\ ~event["A"]
    /\ Len(out_queue["A"]) = QueueMax
    /\ msg["A"] = DiscoMsg("B")

\* A has added both B and C.
BothReplies == {"B", "C"} \subseteq peerlist["A"]

\* A has put its END on the outbound queue.
EndEmitted == Dumps(EndMsg("A")) \in produced["A"]

\* C9: once A has added B and C its END (source A) is in produce() or has
\* been put on the outbound queue; A then leaves its poll loop; and when it
\* has left, its PeerList is exactly {B, C} and the END has been put.
C9_EndToEnd ==
    /\ [](BothReplies =>
            \/ EndEmitted
            \/ /\ pc["A"] \in {"produce", "put"}
               /\ pmsg["A"] = Dumps(EndMsg("A")))
    /\ []((BothReplies /\ Returned("A")) =>
            (peerlist["A"] = {"B", "C"} /\ EndEmitted))
    /\ (BothReplies ~> Returned("A"))

\* C9 witness: A has left __enter__ with the PeerList {B, C}, its END put,
\* the last message it took being its own END read back from the topic.
C9_Witness ==
    /\ pc["A"] = "returned"
    /\ peerlist["A"] = {"B", "C"}
    /\ EndEmitted
    /\ msg["A"] = EndMsg("A")

\* C10 (as claimed): once the event is set both workers of the node
\* eventually stop.
C10_WorkersStop ==
    \A n \in Nodes : event[n] ~> (spc[n] = "stopped" /\ rpc[n] = "stopped")

\* The places of the protocol task inside __enter__'s loop.
InLoop(n) == pc[n] \in {"enter", "poll", "consume", "get", "produce", "put"}

\* C11: whatever the two workers did in between, the get of consume() finds
\* a message on the inbound queue and the put of produce() finds a free slot
\* on the outbound queue, so that the protocol task can always take its next
\* step while it is inside __enter__'s loop.
C11_ProtocolTaskNeverBlocks ==
    \A n \in cluster :
        /\ pc[n] = "get" => in_queue[n] # <<>>
        /\ pc[n] = "put" => Len(out_queue[n]) < QueueMax
        /\ InLoop(n) => ENABLED ProtocolTask(n)

\* C11 witness: A has taken a DISCO written after the backlog built up, has
\* passed produce()'s test and stands at the put with one slot left.
C11_Witness ==
    /\ pc["A"] = "put"
    /\ Len(out_queue["A"]) = QueueMax - 1
    /\ injected >= 1
    /\ in_queue["A"] = <<>>
    /\ pmsg["A"] = Dumps(ReplyMsg("A"))

\* C12: len(PeerList) is the number of distinct identities present and is
\* never negative; a call that adds a present identity or removes an absent
\* one leaves the size, and the set, as they were.
C12_LengthIsCardinality ==
    /\ [](\A n \in Nodes : plen[n] = Cardinality(peerlist[n]) /\ plen[n] >= 0)
    /\ [][\A n \in Nodes :
            (calls' # calls /\ Cardinality(peerlist'[n]) = plen[n])
                => (plen'[n] = plen[n] /\ peerlist'[n] = peerlist[n])]_vars

\* C12 witness: after three calls, one of which added a present identity or
\* removed an absent one, the PeerList holds B alone.
C12_Witness ==
    /\ calls >= 3
    /\ peerlist["A"] = {"B"}
    /\ plen["A"] = 1

\* C13 (as claimed): a call of add_peer/remove_peer calls each registered
\* callback once, in registration order, with an old set equal to the set
\* before the call and a new set equal to the set after it; and the sets a
\* subscriber was handed read the same after any later step.
C13_SubscribersNotified ==
    [][\A n \in Nodes :
          /\ calls' # calls =>
                /\ Len(notified'[n]) = Len(notified[n]) + Len(callbacks[n])
                /\ SubSeq(notified'[n], 1, Len(notified[n])) = notified[n]
                /\ \A i \in DOMAIN callbacks[n] :
                      LET call == notified'[n][Len(notified[n]) + i]
                      IN  /\ call.callback = callbacks[n][i]
                          /\ DerefNext(n, call.old) = peerlist[n]
                          /\ DerefNext(n, call.new) = peerlist'[n]
          /\ \A i \in DOMAIN notified[n] :
                /\ DerefNext(n, notified[n][i].old)
                      = Deref(n, notified[n][i].old)
                /\ DerefNext(n, notified[n][i].new)
                      = Deref(n, notified[n][i].new)]_vars

\* C14: in each direction the queue hands the messages over in order, none
\* lost and none twice.  The texts the send worker has written, followed by
\* those still on the outbound queue, are the texts that the produce() calls
\* put, in call order (a dropped call puts nothing); the texts the protocol
\* task has taken from consume(), followed by those still on the inbound
\* queue, are the texts the receive worker read from the bus, in that order.
C14_QueuesKeepOrder ==
    \A n \in Nodes :
        /\ written[n] \o out_queue[n] = plog[n]
        /\ clog[n] \o in_queue[n] = rlog[n]

\* C14 witness: A has written its DISCO and then a REPLY, has taken three
\* messages, and a produce() call of its owner was dropped after it left
\* __enter__.
C14_Witness ==
    /\ Len(written["A"]) >= 2
    /\ written["A"][1] = Dumps(DiscoMsg("A"))
    /\ written["A"][2] = Dumps(ReplyMsg("A"))
    /\ Len(clog["A"]) >= 3
    /\ pc["A"] = "returned"
    /\ pret["A"] = "returned"

\* C15 (as claimed): when the poll loop has ended through shutdown and
\* __enter__ has returned, watchdog.cancel() is eventually called, and the
\* timer does not fire after that.
C15_WatchdogCancelled ==
    /\ \A n \in Nodes : (endit[n] /\ pc[n] = "returned") ~> (pc[n] = "done")
    /\ [][\A n \in Nodes :
            pc[n] = "done" => watchdog'[n] = watchdog[n]]_vars

\* C16 (as claimed): once the watchdog has fired with discovery not
\* completed, the protocol task takes no further message from consume()
\* and starts no further iteration of poll()'s loop.
C16_TimeoutIsFatal ==
    [][\A n \in Nodes :
          (watchdog[n] = "fired" /\ ~endit[n])
              => /\ clog'[n] = clog[n]
                 /\ ~(pc[n] = "poll" /\ pc'[n] = "consume")]_vars

\* C17: a node puts a DISCO on its outbound queue at most once, as the
\* first text it ever puts, with its own identity as source; discovery()
\* starts that produce() only with the in-discovery flag clear and sets the
\* flag; the flag is never cleared.
C17_DiscoAtMostOnce ==
    /\ [](\A n \in Nodes :
            /\ plog[n] # <<>> =>
                  (plog[n][1] = Dumps(DiscoMsg(n)) /\ in_disco[n])
            /\ \A i \in DOMAIN plog[n] :
                  Loads(plog[n][i]).action = DISCO => i = 1)
    /\ [][\A n \in Nodes :
            /\ in_disco[n] => in_disco'[n]
            /\ (pc[n] \in {"enter", "returned"} /\ pc'[n] = "produce"
                   /\ pret'[n] = "poll")
                  => (~in_disco[n] /\ in_disco'[n]
                      /\ pmsg'[n] = Dumps(DiscoMsg(n)))]_vars

\* C17 witness: A has announced, has then answered the DISCO of a peer, and
\* has left __enter__: a DISCO and a REPLY are all it ever put.
C17_Witness ==
    /\ plog["A"] = <<Dumps(DiscoMsg("A")), Dumps(ReplyMsg("A"))>>
    /\ DiscoMsg("B") \in {Loads(clog["A"][i]) : i \in DOMAIN clog["A"]}
    /\ pc["A"] = "returned"

\* The texts of a sequence.
Range(q) == {q[i] : i \in DOMAIN q}

\* The places in n's consume() log of the END messages.
EndsTaken(n) == {i \in DOMAIN clog[n] : Loads(clog[n][i]).action = END}

\* C18: a node ends discovery by honouring an END, whatever the size of its
\* own PeerList: a node that has taken an END has its end flag and event
\* set, and a node whose end flag is set has taken, as its last message, an
\* END that a node holding a quorum wrote to the topic.
C18_TerminationPerNode ==
    \A n \in cluster :
        /\ EndsTaken(n) # {} => (endit[n] /\ event[n])
        /\ endit[n] =>
              /\ EndsTaken(n) = {Len(clog[n])}
              /\ \E p \in cluster :
                    /\ clog[n][Len(clog[n])] \in Range(written[p])
                    /\ Cardinality(peerlist[p]) >= MIN_PEERS

\* C18 witness: B reached the quorum and wrote its END; A honoured it and
\* left __enter__ holding one peer; B left with two: the final peer sets of
\* A, B and C differ.
C18_Witness ==
    /\ Returned("A") /\ Returned("B") /\ Returned("C")
    /\ msg["A"] = EndMsg("B")
    /\ Cardinality(peerlist["A"]) < MIN_PEERS
    /\ peerlist["A"] = {"C"}
    /\ peerlist["B"] = {"A", "C"}
    /\ peerlist["C"] = {"A"}
    /\ Dumps(EndMsg("B")) \in Range(written["B"])

\* C19: in the closed cluster every text on the topic was produced by an
\* engine and is one of the three messages its code builds, so that every
\* REPLY carries reply = source = its sender; and every identity in a
\* node's PeerList is another engine of the cluster that has written a
\* REPLY.
C19_PeersAreRepliers ==
    \A n \in cluster :
        /\ \A i \in DOMAIN plog[n] : Loads(plog[n][i]) \in OwnMsgs(n)
        /\ \A i \in DOMAIN rlog[n] :
              \E p \in cluster : rlog[n][i] \in Range(written[p])
        /\ \A p \in peerlist[n] :
              /\ p \in cluster
              /\ p # n
              /\ Dumps(ReplyMsg(p)) \in Range(written[p])

\* C19 witness: A has taken its own REPLY and the REPLY of C, B has taken
\* both REPLYs and holds A and C, before any END was written.
C19_Witness ==
    /\ peerlist["B"] = {"A", "C"}
    /\ peerlist["A"] = {"C"}
    /\ Len(clog["A"]) = Len(BusBefore) + Len(BusAfter)
    /\ \A n \in Nodes : Dumps(EndMsg(n)) \notin Range(written[n])

====
